---------------------------- MODULE Spec2Model ----------------------------
(***************************************************************************)
(* A model of the LaTeX table auditor (src/auditor.py) and of the agent    *)
(* pipeline that drives it (src/main.py, src/router.py).                   *)
(*                                                                         *)
(* A text is a sequence of tokens.  A token is one character ("\\", "{",   *)
(* "}", "[", "]", "&", "%", "|", "@", " ", "\n", a letter) or one keyword   *)
(* written without its backslash and closing brace ("begin{tabular",       *)
(* "end{tabular", "caption", "toprule", ...).  The marker \begin{tabular}  *)
(* is therefore the three tokens "\\", "begin{tabular", "}".  No keyword   *)
(* token is a concatenation of other tokens, so a substring or regular     *)
(* expression match of the source on the characters is a match on the      *)
(* tokens and conversely.                                                  *)
(*                                                                         *)
(* Optional values (Optional[int], Optional[TabularBlock]) are sequences   *)
(* of length at most one: << >> is None and <<v>> is the value v.          *)
(***************************************************************************)
EXTENDS Integers, Sequences, FiniteSets, TLC

VARIABLES
    pc,                     \* position in audit_latex_table, or in a helper called on its own
    latex_code,             \* the text audited
    issues,                 \* auditor.py:109
    suggestions,            \* auditor.py:110
    placeholder_headers,    \* auditor.py:111
    needs_tabular_scaffold, \* auditor.py:112
    tabular_block,          \* auditor.py:130, Optional[TabularBlock]
    column_mismatch_rows,   \* auditor.py:131
    expected_cols,          \* auditor.py:132, Optional[int]
    inferred_cols,          \* auditor.py:146, Optional[int]
    report,                 \* the dict returned at auditor.py:171, Optional
    apc,                    \* position in run_agent
    input_data,             \* run_agent's argument
    input_type,             \* main.py:21
    current_latex,          \* main.py:26/29, Optional
    calls,                  \* the tool calls run_agent has made, in order
    final_latex             \* run_agent's return value, Optional

vars == <<pc, latex_code, issues, suggestions, placeholder_headers,
          needs_tabular_scaffold, tabular_block, column_mismatch_rows,
          expected_cols, inferred_cols, report,
          apc, input_data, input_type, current_latex, calls, final_latex>>

auditVars == <<pc, latex_code, issues, suggestions, placeholder_headers,
               needs_tabular_scaffold, tabular_block, column_mismatch_rows,
               expected_cols, inferred_cols, report>>

agentVars == <<apc, input_data, input_type, current_latex, calls, final_latex>>

-----------------------------------------------------------------------------
(* Bounds of the model. *)

MaxExtractFrags == 6
MaxSpecLen == 6
MaxBodyLen == 6
MaxCols == 2
MaxTableFrags == 3
MaxLineLen == 5
MaxInputLen == 3

-----------------------------------------------------------------------------
(* Sequences and Python's str operations on token sequences. *)

None == << >>

Some(v) == <<v>>

Max(a, b) == IF a >= b THEN a ELSE b

\* All sequences over S of length at most n.
SeqsUpTo(S, n) == UNION {[1..k -> S] : k \in 0..n}

\* s[a:b] with 0-based, end-exclusive offsets 0 <= a, b <= len(s); empty when b <= a.
Slice(s, a, b) == IF b <= a THEN << >> ELSE SubSeq(s, a + 1, b)

\* Whether pat occurs in s at 1-based position i.
MatchesAt(s, i, pat) ==
    /\ i >= 1
    /\ i + Len(pat) - 1 <= Len(s)
    /\ \A k \in 1..Len(pat) : s[i + k - 1] = pat[k]

\* pat in s
Contains(s, pat) == \E i \in 1..(Len(s) + 1) : MatchesAt(s, i, pat)

\* s.startswith(pat)
StartsWith(s, pat) == MatchesAt(s, 1, pat)

\* s.count(tok) for a one-token pattern
RECURSIVE CountTok(_, _)
CountTok(s, tok) ==
    IF s = << >> THEN 0
    ELSE (IF Head(s) = tok THEN 1 ELSE 0) + CountTok(Tail(s), tok)

\* s.replace(pat, ""): leftmost, non-overlapping occurrences removed in one pass.
RECURSIVE Remove(_, _)
Remove(s, pat) ==
    IF s = << >> THEN << >>
    ELSE IF MatchesAt(s, 1, pat) THEN Remove(SubSeq(s, Len(pat) + 1, Len(s)), pat)
    ELSE <<Head(s)>> \o Remove(Tail(s), pat)

\* s.split(sep): leftmost, non-overlapping separators; always at least one piece.
RECURSIVE SplitFrom(_, _, _)
SplitFrom(s, sep, cur) ==
    IF s = << >> THEN <<cur>>
    ELSE IF MatchesAt(s, 1, sep)
         THEN <<cur>> \o SplitFrom(SubSeq(s, Len(sep) + 1, Len(s)), sep, << >>)
    ELSE SplitFrom(Tail(s), sep, Append(cur, Head(s)))

Split(s, sep) == SplitFrom(s, sep, << >>)

Whitespace == {" ", "\n"}

RECURSIVE LStrip(_)
LStrip(s) == IF s # << >> /\ Head(s) \in Whitespace THEN LStrip(Tail(s)) ELSE s

RECURSIVE RStrip(_)
RStrip(s) ==
    IF s # << >> /\ s[Len(s)] \in Whitespace THEN RStrip(SubSeq(s, 1, Len(s) - 1)) ELSE s

\* s.strip()
Strip(s) == RStrip(LStrip(s))

\* s.splitlines(): lines without their terminators, no empty last line.
SplitLines(s) ==
    LET pieces == Split(s, <<"\n">>)
    IN  IF pieces[Len(pieces)] = << >> THEN SubSeq(pieces, 1, Len(pieces) - 1) ELSE pieces

\* The concatenation of a sequence of token sequences.
RECURSIVE Flatten(_)
Flatten(ss) == IF ss = << >> THEN << >> ELSE Head(ss) \o Flatten(Tail(ss))

-----------------------------------------------------------------------------
(* The markers of the source as token sequences. *)

BeginTabular == <<"\\", "begin{tabular", "}">>
EndTabular == <<"\\", "end{tabular", "}">>

\* The smallest index k >= from with s[k] = tok, or 0 when there is none.
FirstIndexOf(s, tok, from) ==
    LET hits == {k \in from..Len(s) : s[k] = tok}
    IN  IF hits = {} THEN 0 ELSE CHOOSE k \in hits : \A h \in hits : k <= h

-----------------------------------------------------------------------------
(* TABULAR_BEGIN_RE at position i: the begin marker, an optional placement *)
(* argument in square brackets, and the column spec in braces.             *)
(* The optional placement argument runs to the first "]"; when it is there *)
(* and no "{" follows it, the match fails (without it "{" would have to    *)
(* stand where "[" does).  The column spec runs to the first "}".          *)

\* The position of the "{" that opens the column spec, or 0.
SpecOpenAt(s, i) ==
    IF ~MatchesAt(s, i, BeginTabular) THEN 0
    ELSE LET j == i + 3
             close == IF j <= Len(s) /\ s[j] = "[" THEN FirstIndexOf(s, "]", j + 1) ELSE 0
             open == IF close > 0 THEN close + 1 ELSE j
         IN  IF open <= Len(s) /\ s[open] = "{" THEN open ELSE 0

\* The position of the "}" that closes the column spec: the match's end, or 0.
BeginMatchEnd(s, i) ==
    LET open == SpecOpenAt(s, i)
    IN  IF open = 0 THEN 0 ELSE FirstIndexOf(s, "}", open + 1)

\* TABULAR_BEGIN_RE.search: the first position with a match, or 0.
BeginSearch(s) ==
    LET hits == {i \in 1..Len(s) : BeginMatchEnd(s, i) > 0}
    IN  IF hits = {} THEN 0 ELSE CHOOSE i \in hits : \A h \in hits : i <= h

\* begin_match.group(1)
BeginGroup1(s, i) == SubSeq(s, SpecOpenAt(s, i) + 1, BeginMatchEnd(s, i) - 1)

\* A scan that closes at the first end marker, whatever the depth.
RECURSIVE ScanTokensFirstEnd(_, _, _)
ScanTokensFirstEnd(s, pos, depth) ==
    IF pos > Len(s) THEN None
    ELSE IF MatchesAt(s, pos, EndTabular) THEN Some(pos - 1)
    ELSE ScanTokensFirstEnd(s, pos + 1, depth)

\* The loop of _extract_outer_tabular over TABULAR_TOKEN_RE.finditer from
\* position pos with the depth so far: end_idx (0-based) as an Optional.
RECURSIVE ScanTokens(_, _, _)
ScanTokens(s, pos, depth) ==
    IF pos > Len(s) THEN None
    ELSE IF MatchesAt(s, pos, BeginTabular) THEN ScanTokens(s, pos + 3, depth + 1)
    ELSE IF MatchesAt(s, pos, EndTabular)
         THEN IF depth - 1 = 0 THEN Some(pos - 1) ELSE ScanTokens(s, pos + 3, depth - 1)
    ELSE ScanTokens(s, pos + 1, depth)

TabularBlock(spec, body) == [column_spec |-> spec, body |-> body]

\* _extract_outer_tabular
ExtractOuterTabular(s) ==
    LET start == BeginSearch(s)
    IN  IF start = 0 THEN None
        ELSE LET end_idx == ScanTokens(s, start, 0)
             IN  IF end_idx = None THEN None
                 ELSE Some(TabularBlock(BeginGroup1(s, start),
                                        Slice(s, BeginMatchEnd(s, start), end_idx[1])))

-----------------------------------------------------------------------------
(* _count_columns_from_spec *)

\* How many characters of a token match [lcrpmbXS] with re.IGNORECASE.
ColumnLetters(tok) ==
    CASE tok \in {"l", "c", "r", "p", "m", "b", "x", "s",
                  "L", "C", "R", "P", "M", "B", "X", "S"} -> 1
      [] tok = "begin{tabular" -> 4
      [] tok = "end{tabular" -> 3
      [] tok = "caption" -> 2
      [] tok = "label" -> 3
      [] tok = "centering" -> 2
      [] tok = "toprule" -> 3
      [] tok = "midrule" -> 3
      [] tok = "bottomrule" -> 4
      [] tok = "textbf" -> 2
      [] tok = "3cm" -> 2
      [] OTHER -> 0

\* re.sub(r"@{[^}]*}", "", column_spec)
RECURSIVE RemoveAtDirectives(_)
RemoveAtDirectives(s) ==
    IF s = << >> THEN << >>
    ELSE LET close == IF MatchesAt(s, 1, <<"@", "{">>) THEN FirstIndexOf(s, "}", 3) ELSE 0
         IN  IF close > 0 THEN RemoveAtDirectives(SubSeq(s, close + 1, Len(s)))
             ELSE <<Head(s)>> \o RemoveAtDirectives(Tail(s))

\* len(re.findall(r"[lcrpmbXS]", cleaned, re.IGNORECASE))
RECURSIVE CountLetters(_)
CountLetters(s) ==
    IF s = << >> THEN 0 ELSE ColumnLetters(Head(s)) + CountLetters(Tail(s))

CountColumnsFromSpec(column_spec) ==
    LET cleaned == Remove(RemoveAtDirectives(column_spec), <<"|">>)
        n == CountLetters(cleaned)
    IN  IF n = 0 THEN None ELSE Some(n)

-----------------------------------------------------------------------------
(* _find_column_mismatches *)

RowTerminator == <<"\\", "\\">>

\* auditor.py:70
RECURSIVE StrippedNonEmpty(_)
StrippedNonEmpty(pieces) ==
    IF pieces = << >> THEN << >>
    ELSE (IF Strip(Head(pieces)) # << >> THEN <<Strip(Head(pieces))>> ELSE << >>)
         \o StrippedNonEmpty(Tail(pieces))

\* auditor.py:74-77
SkippedRow(row) ==
    \/ StartsWith(row, <<"\\">>)
    \/ Contains(row, <<"toprule">>)
    \/ Contains(row, <<"midrule">>)
    \/ Contains(row, <<"bottomrule">>)
    \/ Contains(row, <<"\\", "begin{tabular">>)
    \/ Contains(row, <<"\\", "end{tabular">>)

\* A cell count that takes an escaped separator for a cell boundary.
RowColCountEscapedToo(row) == CountTok(row, "&") + 1

\* auditor.py:80-81
RowColCount(row) == CountTok(Remove(row, <<"\\", "&">>), "&") + 1

\* The loop of auditor.py:73-83 over the remaining rows.
RECURSIVE MismatchLoop(_, _, _)
MismatchLoop(rows, data_row_index, expected) ==
    IF rows = << >> THEN << >>
    ELSE IF SkippedRow(Head(rows)) THEN MismatchLoop(Tail(rows), data_row_index, expected)
    ELSE (IF RowColCount(Head(rows)) # expected THEN <<data_row_index + 1>> ELSE << >>)
         \o MismatchLoop(Tail(rows), data_row_index + 1, expected)

FindColumnMismatches(block, expected) ==
    MismatchLoop(StrippedNonEmpty(Split(block.body, RowTerminator)), 0, expected)

-----------------------------------------------------------------------------
(* _count_columns_in_line and the fallback scan of auditor.py:150 *)

CountColumnsInLine(line) ==
    IF line = None \/ line[1] = << >> THEN None
    ELSE LET sanitized == Remove(line[1], <<"\\", "&">>)
         IN  IF ~Contains(sanitized, <<"&">>) THEN None
             ELSE Some(CountTok(sanitized, "&") + 1)

\* A scan that takes the first line with a separator, comment or not.
RECURSIVE FirstLineWithAmpCommentsToo(_)
FirstLineWithAmpCommentsToo(lines) ==
    IF lines = << >> THEN None
    ELSE IF Contains(Head(lines), <<"&">>) THEN Some(Head(lines))
    ELSE FirstLineWithAmpCommentsToo(Tail(lines))

\* next((line for line in lines if "&" in line and not line.strip().startswith("%")), None)
RECURSIVE FirstLineWithAmp(_)
FirstLineWithAmp(lines) ==
    IF lines = << >> THEN None
    ELSE IF Contains(Head(lines), <<"&">>) /\ ~StartsWith(Strip(Head(lines)), <<"%">>)
         THEN Some(Head(lines))
    ELSE FirstLineWithAmp(Tail(lines))

-----------------------------------------------------------------------------
(* audit_latex_table, one action per check of auditor.py:114-159. *)

has_caption == Contains(latex_code, <<"\\", "caption">>)
has_label == Contains(latex_code, <<"\\", "label">>)
has_centering == Contains(latex_code, <<"\\", "centering">>)
uses_toprule == Contains(latex_code, <<"\\", "toprule">>)
uses_midrule == Contains(latex_code, <<"\\", "midrule">>)
uses_bottomrule == Contains(latex_code, <<"\\", "bottomrule">>)
has_bold_header == Contains(latex_code, <<"\\", "textbf">>)
uses_full_booktabs == uses_toprule /\ uses_midrule /\ uses_bottomrule

CaptionIssue == <<"Caption missing.">>
LabelIssue == <<"Label missing.">>
CenteringIssue == <<"Table is not centered.">>
RulesIssue == <<"Booktabs rules are incomplete.">>
MismatchIssue(rows) == <<"Column count mismatch on data rows: ", rows, ".">>
ScaffoldIssue == <<"Tabular environment missing.">>
HeaderIssue == <<"Header row missing or not emphasized.">>

CaptionFix == <<"Add a descriptive caption so readers understand the table.">>
LabelFix == <<"Add a label for cross-referencing.">>
CenteringFix == <<"Include \\centering inside the table environment.">>
RulesFix == <<"Use \\toprule, \\midrule, and \\bottomrule for consistent styling.">>
MismatchFix == <<"Ensure each row has the same number of cells as the column spec.">>
ScaffoldFix ==
    <<"Wrap the rows in \\begin{tabular}{...} ... \\end{tabular} with a proper column spec.">>
HeaderFix == <<"Add a bold header row so each column has a descriptive name.">>

\* The state at auditor.py:109-112 (and the locals assigned later, not yet set).
AuditEntry(text) ==
    /\ pc = "caption"
    /\ latex_code = text
    /\ issues = << >>
    /\ suggestions = << >>
    /\ placeholder_headers = << >>
    /\ needs_tabular_scaffold = FALSE
    /\ tabular_block = None
    /\ column_mismatch_rows = << >>
    /\ expected_cols = None
    /\ inferred_cols = None
    /\ report = None

\* A presence check that records the issue and forgets its suggestion.
PresenceCheckDropsFix(here, present, issue, fix, next) ==
    /\ pc = here
    /\ pc' = next
    /\ issues' = IF present THEN issues ELSE Append(issues, issue)
    /\ suggestions' = suggestions
    /\ UNCHANGED <<latex_code, placeholder_headers, needs_tabular_scaffold, tabular_block,
                   column_mismatch_rows, expected_cols, inferred_cols, report>>
    /\ UNCHANGED agentVars

\* One presence check: an issue and its suggestion, appended together or not at all.
PresenceCheck(here, present, issue, fix, next) ==
    /\ pc = here
    /\ pc' = next
    /\ issues' = IF present THEN issues ELSE Append(issues, issue)
    /\ suggestions' = IF present THEN suggestions ELSE Append(suggestions, fix)
    /\ UNCHANGED <<latex_code, placeholder_headers, needs_tabular_scaffold, tabular_block,
                   column_mismatch_rows, expected_cols, inferred_cols, report>>
    /\ UNCHANGED agentVars

\* auditor.py:114-116
CheckCaption == PresenceCheck("caption", has_caption, CaptionIssue, CaptionFix, "label")

\* auditor.py:118-120
CheckLabel == PresenceCheck("label", has_label, LabelIssue, LabelFix, "centering")

\* auditor.py:122-124
CheckCentering ==
    PresenceCheck("centering", has_centering, CenteringIssue, CenteringFix, "rules")

\* A rules check that raises the issue once for each missing rule keyword.
CheckRulesPerKeyword ==
    /\ pc = "rules"
    /\ pc' = "extract"
    /\ LET missing == SelectSeq(<<uses_toprule, uses_midrule, uses_bottomrule>>,
                                LAMBDA present : ~present)
       IN  /\ issues' = issues \o [i \in 1..Len(missing) |-> RulesIssue]
           /\ suggestions' = suggestions \o [i \in 1..Len(missing) |-> RulesFix]
    /\ UNCHANGED <<latex_code, placeholder_headers, needs_tabular_scaffold, tabular_block,
                   column_mismatch_rows, expected_cols, inferred_cols, report>>
    /\ UNCHANGED agentVars

\* auditor.py:126-128
CheckRules == PresenceCheck("rules", uses_full_booktabs, RulesIssue, RulesFix, "extract")

\* A tabular check that scans the rows against a default of three columns when
\* the spec declares none.
CheckTabularScansWithoutSpec ==
    /\ pc = "extract"
    /\ pc' = "infer"
    /\ LET block == ExtractOuterTabular(latex_code)
           cols == IF block # None THEN CountColumnsFromSpec(block[1].column_spec) ELSE None
           rows == IF block = None THEN << >>
                   ELSE FindColumnMismatches(block[1], IF cols # None THEN cols[1] ELSE 3)
       IN  /\ tabular_block' = block
           /\ expected_cols' = cols
           /\ column_mismatch_rows' = rows
           /\ needs_tabular_scaffold' = (block = None)
           /\ issues' = IF block = None THEN Append(issues, ScaffoldIssue)
                        ELSE IF rows # << >> THEN Append(issues, MismatchIssue(rows))
                        ELSE issues
           /\ suggestions' = IF block = None THEN Append(suggestions, ScaffoldFix)
                             ELSE IF rows # << >> THEN Append(suggestions, MismatchFix)
                             ELSE suggestions
    /\ UNCHANGED <<latex_code, placeholder_headers, inferred_cols, report>>
    /\ UNCHANGED agentVars

\* auditor.py:130-144
CheckTabular ==
    /\ pc = "extract"
    /\ pc' = "infer"
    /\ LET block == ExtractOuterTabular(latex_code)
           cols == IF block # None THEN CountColumnsFromSpec(block[1].column_spec) ELSE None
           rows == IF cols # None THEN FindColumnMismatches(block[1], cols[1]) ELSE << >>
       IN  /\ tabular_block' = block
           /\ expected_cols' = cols
           /\ column_mismatch_rows' = rows
           /\ needs_tabular_scaffold' = (block = None)
           /\ issues' = IF block = None THEN Append(issues, ScaffoldIssue)
                        ELSE IF rows # << >> THEN Append(issues, MismatchIssue(rows))
                        ELSE issues
           /\ suggestions' = IF block = None THEN Append(suggestions, ScaffoldFix)
                             ELSE IF rows # << >> THEN Append(suggestions, MismatchFix)
                             ELSE suggestions
    /\ UNCHANGED <<latex_code, placeholder_headers, inferred_cols, report>>
    /\ UNCHANGED agentVars

\* auditor.py:146-153
InferColumns ==
    /\ pc = "infer"
    /\ pc' = "header"
    /\ LET inferred == IF expected_cols # None THEN expected_cols
                       ELSE CountColumnsInLine(FirstLineWithAmp(SplitLines(latex_code)))
       IN  /\ inferred_cols' = inferred
           /\ expected_cols' = IF expected_cols = None /\ inferred # None
                               THEN inferred ELSE expected_cols
    /\ UNCHANGED <<latex_code, issues, suggestions, placeholder_headers,
                   needs_tabular_scaffold, tabular_block, column_mismatch_rows, report>>
    /\ UNCHANGED agentVars

\* A header count whose last resort is one column, not three.
ColCountForHeadersDefaultOne(expected, inferred) ==
    IF expected # None /\ expected[1] # 0 THEN expected[1]
    ELSE IF inferred # None /\ inferred[1] # 0 THEN inferred[1]
    ELSE 1

\* expected_cols or inferred_cols or 3
ColCountForHeaders(expected, inferred) ==
    IF expected # None /\ expected[1] # 0 THEN expected[1]
    ELSE IF inferred # None /\ inferred[1] # 0 THEN inferred[1]
    ELSE 3

\* [f"Column {i+1}" for i in range(max(1, n))]
PlaceholderHeaders(n) == [i \in 1..Max(1, n) |-> <<"Column ", i>>]

\* A header check that synthesizes the placeholders whether or not the text
\* has a bold marker.
CheckHeaderAlwaysPlaceholders ==
    /\ pc = "header"
    /\ pc' = "return"
    /\ issues' = IF has_bold_header THEN issues ELSE Append(issues, HeaderIssue)
    /\ suggestions' = IF has_bold_header THEN suggestions ELSE Append(suggestions, HeaderFix)
    /\ placeholder_headers' =
           PlaceholderHeaders(ColCountForHeaders(expected_cols, inferred_cols))
    /\ UNCHANGED <<latex_code, needs_tabular_scaffold, tabular_block,
                   column_mismatch_rows, expected_cols, inferred_cols, report>>
    /\ UNCHANGED agentVars

\* auditor.py:155-159
CheckHeader ==
    /\ pc = "header"
    /\ pc' = "return"
    /\ issues' = IF has_bold_header THEN issues ELSE Append(issues, HeaderIssue)
    /\ suggestions' = IF has_bold_header THEN suggestions ELSE Append(suggestions, HeaderFix)
    /\ placeholder_headers' =
           IF has_bold_header THEN placeholder_headers
           ELSE PlaceholderHeaders(ColCountForHeaders(expected_cols, inferred_cols))
    /\ UNCHANGED <<latex_code, needs_tabular_scaffold, tabular_block,
                   column_mismatch_rows, expected_cols, inferred_cols, report>>
    /\ UNCHANGED agentVars

\* auditor.py:171-182
Report ==
    [has_caption |-> has_caption,
     has_label |-> has_label,
     has_centering |-> has_centering,
     uses_full_booktabs |-> uses_full_booktabs,
     column_mismatch_rows |-> column_mismatch_rows,
     expected_columns |-> expected_cols,
     needs_tabular_scaffold |-> needs_tabular_scaffold,
     placeholder_headers |-> placeholder_headers,
     issues |-> issues,
     suggestions |-> suggestions]

AuditReturn ==
    /\ pc = "return"
    /\ pc' = "done"
    /\ report' = Some(Report)
    /\ UNCHANGED <<latex_code, issues, suggestions, placeholder_headers,
                   needs_tabular_scaffold, tabular_block, column_mismatch_rows,
                   expected_cols, inferred_cols>>
    /\ UNCHANGED agentVars

NextAudit ==
    \/ CheckCaption
    \/ CheckLabel
    \/ CheckCentering
    \/ CheckRules
    \/ CheckTabular
    \/ InferColumns
    \/ CheckHeader
    \/ AuditReturn

\* run_agent has not been entered.
AgentIdle ==
    /\ apc = "idle"
    /\ input_data = << >>
    /\ input_type = "none"
    /\ current_latex = None
    /\ calls = << >>
    /\ final_latex = None

-----------------------------------------------------------------------------
(* The audit of whole texts: a preamble of presence keywords followed by   *)
(* up to MaxTableFrags table fragments.                                    *)

Keyword(name) == <<"\\", name>>

BeginLL == BeginTabular \o <<"{", "l", "l", "}">>
BeginBar == BeginTabular \o <<"{", "|", "}">>

TableFrags == {BeginLL, BeginBar, EndTabular, <<"&">>, <<"a">>}

RuleChoices == {<< >>, <<"toprule">>, <<"toprule", "midrule", "bottomrule">>}

FlagChoices ==
    {SelectSeq(<<"caption", "label", "centering", "textbf">>, LAMBDA k : k \in S) :
        S \in SUBSET {"caption", "label", "centering", "textbf"}}

Preambles ==
    {Flatten([i \in 1..Len(ks) |-> Keyword(ks[i])]) :
        ks \in {f \o r : f \in FlagChoices, r \in RuleChoices}}

AuditTexts ==
    {p \o Flatten(fs) : p \in Preambles, fs \in SeqsUpTo(TableFrags, MaxTableFrags)}

InitAudit ==
    /\ \E text \in AuditTexts : AuditEntry(text)
    /\ AgentIdle

SpecAudit == InitAudit /\ [][NextAudit]_vars

(* The audit of texts of up to MaxLineLen characters of lines, cells and   *)
(* comments, alone or after a tabular whose spec declares no column.       *)

LineAlphabet == {"&", "\\", "%", "\n", " "}

LinePrefixes == {<< >>, BeginBar \o EndTabular}

LineTexts == {p \o s : p \in LinePrefixes, s \in SeqsUpTo(LineAlphabet, MaxLineLen)}

InitAuditLines ==
    /\ \E text \in LineTexts : AuditEntry(text)
    /\ AgentIdle

SpecAuditLines == InitAuditLines /\ [][NextAudit]_vars

-----------------------------------------------------------------------------
(* The functions of the auditor on their own. *)

\* No audit is running; the function under test reads its argument from the
\* audit's variables and writes its result there.
FunctionEntry(at, text, block, expected) ==
    /\ pc = at
    /\ latex_code = text
    /\ issues = << >>
    /\ suggestions = << >>
    /\ placeholder_headers = << >>
    /\ needs_tabular_scaffold = FALSE
    /\ tabular_block = block
    /\ column_mismatch_rows = << >>
    /\ expected_cols = expected
    /\ inferred_cols = None
    /\ report = None

ExtractAlphabet == {BeginTabular, EndTabular, <<"{">>, <<"}">>, <<"[">>, <<"]">>}

ExtractTexts == {Flatten(fs) : fs \in SeqsUpTo(ExtractAlphabet, MaxExtractFrags)}

InitExtract ==
    /\ \E text \in ExtractTexts : FunctionEntry("extract_call", text, None, None)
    /\ AgentIdle

\* tabular_block = _extract_outer_tabular(latex_code)
CallExtract ==
    /\ pc = "extract_call"
    /\ pc' = "extract_ret"
    /\ tabular_block' = ExtractOuterTabular(latex_code)
    /\ UNCHANGED <<latex_code, issues, suggestions, placeholder_headers,
                   needs_tabular_scaffold, column_mismatch_rows, expected_cols,
                   inferred_cols, report>>
    /\ UNCHANGED agentVars

NextExtract == CallExtract

SpecExtract == InitExtract /\ [][NextExtract]_vars

SpecAlphabet == {"l", "C", "p", "|", "@", "{", "}", "3cm"}

InitCount ==
    /\ \E spec \in SeqsUpTo(SpecAlphabet, MaxSpecLen) :
           FunctionEntry("count_call", << >>, Some(TabularBlock(spec, << >>)), None)
    /\ AgentIdle

\* expected_cols = _count_columns_from_spec(tabular_block.column_spec)
CallCount ==
    /\ pc = "count_call"
    /\ pc' = "count_ret"
    /\ expected_cols' = CountColumnsFromSpec(tabular_block[1].column_spec)
    /\ UNCHANGED <<latex_code, issues, suggestions, placeholder_headers,
                   needs_tabular_scaffold, tabular_block, column_mismatch_rows,
                   inferred_cols, report>>
    /\ UNCHANGED agentVars

NextCount == CallCount

SpecCount == InitCount /\ [][NextCount]_vars

BodyAlphabet == {"a", "&", "\\", " ", "toprule", "begin{tabular"}

InitMismatch ==
    /\ \E body \in SeqsUpTo(BodyAlphabet, MaxBodyLen), n \in 1..MaxCols :
           FunctionEntry("mismatch_call", << >>, Some(TabularBlock(<<"l">>, body)), Some(n))
    /\ AgentIdle

\* column_mismatch_rows = _find_column_mismatches(tabular_block, expected_cols)
CallMismatch ==
    /\ pc = "mismatch_call"
    /\ pc' = "mismatch_ret"
    /\ column_mismatch_rows' = FindColumnMismatches(tabular_block[1], expected_cols[1])
    /\ UNCHANGED <<latex_code, issues, suggestions, placeholder_headers,
                   needs_tabular_scaffold, tabular_block, expected_cols,
                   inferred_cols, report>>
    /\ UNCHANGED agentVars

NextMismatch == CallMismatch

SpecMismatch == InitMismatch /\ [][NextMismatch]_vars

-----------------------------------------------------------------------------
(* run_agent (src/main.py) with its tools.  The language model behind the  *)
(* router, the formatter and the refiner answers with any text of          *)
(* ModelTexts or RouterAnswers, or raises.                                 *)

\* str.lower() on the tokens a router answer is made of.
Lower(tok) ==
    CASE tok = "LaTeX" -> "latex"
      [] tok = "Plain" -> "plain"
      [] OTHER -> tok

LowerSeq(s) == [i \in 1..Len(s) |-> Lower(s[i])]

RouterAnswers ==
    {<<"plain">>, <<"latex">>, <<" ", "LaTeX", "\n">>, <<"Plain">>, <<"maybe">>, << >>}

ModelTexts == {<< >>, <<" ", "a", "&", "a", "\n">>, BeginLL \o <<"&">> \o EndTabular}

\* run_router, router.py:22-34: the model's answer, or an exception.
RunRouter(answer, raised) ==
    IF raised THEN "plain"
    ELSE LET decision == LowerSeq(Strip(answer))
         IN  IF decision = <<"latex">> THEN "latex"
             ELSE IF decision = <<"plain">> THEN "plain"
             ELSE "plain"

\* run_formatter, llm_tools.py:23-28
RunFormatter(answer, raised) ==
    IF raised THEN <<"Error in formatter: ">> ELSE Strip(answer)

\* run_refiner, refiner.py:63-67
RunRefiner(answer, raised) ==
    IF raised THEN <<"Error in refiner: ">> ELSE answer

NoInputError == <<"Error: No input data provided.">>

\* main.py:15-18
AgentStart ==
    /\ apc = "start"
    /\ IF input_data = << >> \/ Strip(input_data) = << >>
       THEN /\ final_latex' = Some(NoInputError)
            /\ apc' = "done"
       ELSE /\ final_latex' = final_latex
            /\ apc' = "router"
    /\ UNCHANGED <<input_data, input_type, current_latex, calls>>
    /\ UNCHANGED auditVars

\* main.py:21
CallRouter ==
    /\ apc = "router"
    /\ \E answer \in RouterAnswers, raised \in BOOLEAN :
           input_type' = RunRouter(answer, raised)
    /\ calls' = Append(calls, <<"router", input_data>>)
    /\ apc' = "branch"
    /\ UNCHANGED <<input_data, current_latex, final_latex>>
    /\ UNCHANGED auditVars

\* A formatter step taken whatever the router said.
CallFormatterAlways ==
    /\ apc = "branch"
    /\ \E answer \in ModelTexts, raised \in BOOLEAN :
           current_latex' = Some(RunFormatter(answer, raised))
    /\ calls' = Append(calls, <<"formatter", input_data>>)
    /\ apc' = "auditor"
    /\ UNCHANGED <<input_data, input_type, final_latex>>
    /\ UNCHANGED auditVars

\* main.py:24-26
CallFormatter ==
    /\ apc = "branch"
    /\ input_type = "plain"
    /\ \E answer \in ModelTexts, raised \in BOOLEAN :
           current_latex' = Some(RunFormatter(answer, raised))
    /\ calls' = Append(calls, <<"formatter", input_data>>)
    /\ apc' = "auditor"
    /\ UNCHANGED <<input_data, input_type, final_latex>>
    /\ UNCHANGED auditVars

\* main.py:27-29
PassThrough ==
    /\ apc = "branch"
    /\ input_type # "plain"
    /\ current_latex' = Some(input_data)
    /\ apc' = "auditor"
    /\ UNCHANGED <<input_data, input_type, calls, final_latex>>
    /\ UNCHANGED auditVars

\* main.py:32, the call: audit_latex_table starts on current_latex.
CallAuditor ==
    /\ apc = "auditor"
    /\ apc' = "auditing"
    /\ calls' = Append(calls, <<"auditor", current_latex[1]>>)
    /\ pc' = "caption"
    /\ latex_code' = current_latex[1]
    /\ issues' = << >>
    /\ suggestions' = << >>
    /\ placeholder_headers' = << >>
    /\ needs_tabular_scaffold' = FALSE
    /\ tabular_block' = None
    /\ column_mismatch_rows' = << >>
    /\ expected_cols' = None
    /\ inferred_cols' = None
    /\ report' = None
    /\ UNCHANGED <<input_data, input_type, current_latex, final_latex>>

\* main.py:32-39, the return: audit_results is the report.
AuditorReturned ==
    /\ apc = "auditing"
    /\ pc = "done"
    /\ apc' = "refiner"
    /\ UNCHANGED <<input_data, input_type, current_latex, calls, final_latex>>
    /\ UNCHANGED auditVars

\* main.py:42-45
CallRefiner ==
    /\ apc = "refiner"
    /\ calls' = Append(calls, <<"refiner", current_latex[1], report[1]>>)
    /\ \E answer \in ModelTexts, raised \in BOOLEAN :
           final_latex' = Some(RunRefiner(answer, raised))
    /\ apc' = "done"
    /\ UNCHANGED <<input_data, input_type, current_latex>>
    /\ UNCHANGED auditVars

NextAgent ==
    \/ AgentStart
    \/ CallRouter
    \/ CallFormatter
    \/ PassThrough
    \/ CallAuditor
    \/ NextAudit
    \/ AuditorReturned
    \/ CallRefiner

InputAlphabet == {" ", "\n", "a", "&"}

InitAgent ==
    /\ apc = "start"
    /\ input_data \in SeqsUpTo(InputAlphabet, MaxInputLen)
    /\ input_type = "none"
    /\ current_latex = None
    /\ calls = << >>
    /\ final_latex = None
    /\ pc = "idle"
    /\ latex_code = << >>
    /\ issues = << >>
    /\ suggestions = << >>
    /\ placeholder_headers = << >>
    /\ needs_tabular_scaffold = FALSE
    /\ tabular_block = None
    /\ column_mismatch_rows = << >>
    /\ expected_cols = None
    /\ inferred_cols = None
    /\ report = None

SpecAgent == InitAgent /\ [][NextAgent]_vars

-----------------------------------------------------------------------------
(* Properties of the auditor's report. *)

\* One step of the audit leaves both lists alone or appends one entry to each.
PairedStep ==
    \/ /\ issues' = issues
       /\ suggestions' = suggestions
    \/ /\ Len(issues') = Len(issues) + 1
       /\ Len(suggestions') = Len(suggestions) + 1
       /\ SubSeq(issues', 1, Len(issues)) = issues
       /\ SubSeq(suggestions', 1, Len(suggestions)) = suggestions

\* C1: issues and suggestions have the same length in every report, and every
\* step of the audit appends one issue together with one suggestion or appends
\* to neither list.
C1_IssuesPairedWithSuggestions ==
    /\ [](Len(issues) = Len(suggestions))
    /\ [](report # None => Len(report[1].issues) = Len(report[1].suggestions))
    /\ [][PairedStep]_vars

\* A report with a presence issue, the column mismatch issue and the header issue.
C1_Witness ==
    /\ pc = "done"
    /\ Len(report[1].issues) >= 3
    /\ column_mismatch_rows # << >>
    /\ report[1].issues[Len(report[1].issues)] = HeaderIssue

\* The outer tabular was extracted and its column spec yielded a count.
SpecGaveCount ==
    /\ tabular_block # None
    /\ CountLetters(Remove(RemoveAtDirectives(tabular_block[1].column_spec), <<"|">>)) > 0

\* C2: column_mismatch_rows of a report is non-empty only if the outer tabular
\* was extracted and its column spec yielded a count; so it is empty when
\* needs_tabular_scaffold is true, when expected_columns is None, and when
\* expected_columns was resolved by the fallback line scan only.
C2_MismatchOnlyWithSpecCount ==
    report # None =>
        /\ report[1].column_mismatch_rows # << >> => SpecGaveCount
        /\ report[1].needs_tabular_scaffold => report[1].column_mismatch_rows = << >>
        /\ report[1].expected_columns = None => report[1].column_mismatch_rows = << >>
        /\ (~SpecGaveCount /\ report[1].expected_columns # None)
               => report[1].column_mismatch_rows = << >>

\* A report with a mismatched row, from a tabular whose spec declares two columns.
C2_Witness ==
    /\ report # None
    /\ report[1].column_mismatch_rows = <<1>>
    /\ report[1].expected_columns = Some(2)
    /\ ~report[1].needs_tabular_scaffold

-----------------------------------------------------------------------------
(* Properties of _extract_outer_tabular. *)

\* A begin marker at i carries a column spec that opens at o and closes at e:
\* "{" at o right after the marker or after one bracketed placement argument,
\* and e the first "}" after o.
CarriesSpec(s, i, o, e) ==
    /\ MatchesAt(s, i, BeginTabular)
    /\ i + 3 <= o /\ o < e /\ e <= Len(s)
    /\ s[o] = "{"
    /\ s[e] = "}"
    /\ \A k \in (o + 1)..(e - 1) : s[k] # "}"
    /\ \/ o = i + 3
       \/ /\ o >= i + 5
          /\ s[i + 3] = "["
          /\ s[o - 1] = "]"
          /\ \A k \in (i + 4)..(o - 2) : s[k] # "]"

\* Every <<i, o, e>> with CarriesSpec(s, i, o, e).
BeginsWithSpec(s) ==
    UNION {UNION {{<<i, o, e>> : e \in {x \in (o + 1)..Len(s) : CarriesSpec(s, i, o, x)}} :
                     o \in {x \in (i + 3)..Len(s) : s[x] = "{"}} :
              i \in {x \in 1..Len(s) : MatchesAt(s, x, BeginTabular)}}

\* Begin markers minus end markers among the marker tokens that start in a..j.
Depth(s, a, j) ==
    Cardinality({k \in a..j : MatchesAt(s, k, BeginTabular)})
        - Cardinality({k \in a..j : MatchesAt(s, k, EndTabular)})

\* The end markers at or after a that return the depth counted from a to 0.
Closers(s, a) == {j \in a..Len(s) : MatchesAt(s, j, EndTabular) /\ Depth(s, a, j) = 0}

\* The block the first balanced span gives, as an Optional.
BalancedSpan(s) ==
    IF BeginsWithSpec(s) = {} THEN None
    ELSE LET m == CHOOSE x \in BeginsWithSpec(s) : \A y \in BeginsWithSpec(s) : x[1] <= y[1]
         IN  IF Closers(s, m[1]) = {} THEN None
             ELSE LET j == CHOOSE x \in Closers(s, m[1]) : \A y \in Closers(s, m[1]) : x <= y
                  IN  Some([column_spec |-> SubSeq(s, m[2] + 1, m[3] - 1),
                            body |-> IF j - 1 < m[3] + 1 THEN << >>
                                     ELSE SubSeq(s, m[3] + 1, j - 1)])

\* C3: _extract_outer_tabular returns the first balanced span: from the first
\* begin marker that carries a column spec, +1 for each begin marker and -1 for
\* each end marker, closed by the first end marker that returns the depth to 0;
\* the body is the text between the end of the outer begin marker with its spec
\* and the start of that end marker, and the result is None when there is no
\* such begin marker or the depth never returns to 0.
C3_FirstBalancedSpan ==
    pc = "extract_ret" => tabular_block = BalancedSpan(latex_code)

\* An outer tabular whose body holds a nested begin/end pair intact: the body
\* runs past the inner end marker to the outer one, which ends the text.
C3_Witness ==
    /\ pc = "extract_ret"
    /\ tabular_block # None
    /\ \E i \in 1..Len(tabular_block[1].body) :
           /\ MatchesAt(tabular_block[1].body, i, BeginTabular)
           /\ MatchesAt(tabular_block[1].body, Len(tabular_block[1].body) - 2, EndTabular)
           /\ i < Len(tabular_block[1].body) - 2
    /\ MatchesAt(latex_code, Len(latex_code) - 2, EndTabular)

-----------------------------------------------------------------------------
(* Properties of whole reports. *)

\* Scenario A: no table marker, caption, label, centering, rule keyword or bold.
ScenarioA(text) ==
    /\ ~Contains(text, BeginTabular)
    /\ ~Contains(text, EndTabular)
    /\ \A k \in {"caption", "label", "centering", "toprule", "midrule", "bottomrule",
                 "textbf"} : ~Contains(text, <<"\\", k>>)

AllFlagsFalse(r) ==
    ~r.has_caption /\ ~r.has_label /\ ~r.has_centering /\ ~r.uses_full_booktabs

\* C4 as stated: in scenario A the report has all four presence flags false,
\* needs_tabular_scaffold true, three placeholder headers, exactly 5 issues and
\* exactly 5 suggestions.
C4_ScenarioA_FiveIssues ==
    (pc = "done" /\ ScenarioA(latex_code)) =>
        /\ AllFlagsFalse(report[1])
        /\ report[1].needs_tabular_scaffold
        /\ Len(report[1].placeholder_headers) = 3
        /\ Len(report[1].issues) = 5
        /\ Len(report[1].suggestions) = 5

\* C4 amended: in scenario A the report has all four presence flags false,
\* needs_tabular_scaffold true, exactly 6 issues (4 presence, the scaffold and
\* the header issue, in this order) and 6 suggestions; placeholder_headers has
\* length 3 when expected_columns is None and length expected_columns when the
\* fallback line scan resolved it.
C4_ScenarioA_SixIssues ==
    (pc = "done" /\ ScenarioA(latex_code)) =>
        /\ AllFlagsFalse(report[1])
        /\ report[1].needs_tabular_scaffold
        /\ Len(report[1].placeholder_headers) =
               (IF report[1].expected_columns = None THEN 3
                ELSE report[1].expected_columns[1])
        /\ report[1].issues = <<CaptionIssue, LabelIssue, CenteringIssue, RulesIssue,
                                ScaffoldIssue, HeaderIssue>>
        /\ Len(report[1].suggestions) = 6

\* Scenario A on a non-empty text without cell separator: three default headers.
C4_Witness ==
    /\ pc = "done"
    /\ ScenarioA(latex_code)
    /\ latex_code # << >>
    /\ report[1].expected_columns = None
    /\ Len(report[1].placeholder_headers) = 3
    /\ Len(report[1].issues) = 6

\* C8: placeholder_headers of a report is non-empty exactly when the text has no
\* bold marker, which is exactly when the header issue is raised; when non-empty
\* it is "Column 1", ..., "Column N" with N = expected_columns if that is
\* resolved and 3 otherwise, and N >= 1.
C8_PlaceholderHeaders ==
    pc = "done" =>
        LET h == report[1].placeholder_headers
            e == report[1].expected_columns
            N == IF e # None THEN e[1] ELSE 3
        IN  /\ (h # << >>) <=> ~Contains(latex_code, <<"\\", "textbf">>)
            /\ (h # << >>) <=> (\E i \in 1..Len(report[1].issues) :
                                    report[1].issues[i] = HeaderIssue)
            /\ h # << >> =>
                   /\ N >= 1
                   /\ Len(h) = N
                   /\ \A i \in 1..N : h[i] = <<"Column ", i>>

\* Two headers for a text without bold marker whose tabular declares two columns.
C8_Witness ==
    /\ pc = "done"
    /\ ~Contains(latex_code, <<"\\", "textbf">>)
    /\ tabular_block # None
    /\ report[1].expected_columns = Some(2)
    /\ report[1].placeholder_headers = <<(<<"Column ", 1>>), (<<"Column ", 2>>)>>

\* The place of an issue in the order of the checks.
IssueRank(x) ==
    CASE x = CaptionIssue -> 1
      [] x = LabelIssue -> 2
      [] x = CenteringIssue -> 3
      [] x = RulesIssue -> 4
      [] x = ScaffoldIssue -> 5
      [] x = HeaderIssue -> 6
      [] OTHER -> IF Len(x) = 3 /\ x[1] = MismatchIssue(<< >>)[1] THEN 5 ELSE 0

\* The suggestion that belongs to an issue.
FixFor(x) ==
    CASE x = CaptionIssue -> CaptionFix
      [] x = LabelIssue -> LabelFix
      [] x = CenteringIssue -> CenteringFix
      [] x = RulesIssue -> RulesFix
      [] x = ScaffoldIssue -> ScaffoldFix
      [] x = HeaderIssue -> HeaderFix
      [] OTHER -> MismatchFix

Occurrences(s, x) == Cardinality({i \in 1..Len(s) : s[i] = x})

\* Some of the three rule keywords are in the text, but not all.
PartialRules(text) ==
    /\ \E k \in {"toprule", "midrule", "bottomrule"} : Contains(text, <<"\\", k>>)
    /\ \E k \in {"toprule", "midrule", "bottomrule"} : ~Contains(text, <<"\\", k>>)

\* C9: the issues follow the order of the checks (caption, label, centering,
\* rules, column mismatch or missing tabular, header), each at most once, with
\* the suggestions in the same positions; the column mismatch issue and the
\* missing tabular issue never occur together; needs_tabular_scaffold is true
\* exactly when the missing tabular issue is present; and a text with some but
\* not all rule keywords gets the single rules issue once.
C9_IssueOrder ==
    /\ \A i, j \in 1..Len(issues) :
           i < j => (1 <= IssueRank(issues[i]) /\ IssueRank(issues[i]) < IssueRank(issues[j]))
    /\ \A i \in 1..Len(issues) : IssueRank(issues[i]) >= 1
    /\ Len(suggestions) = Len(issues)
    /\ \A i \in 1..Len(issues) : suggestions[i] = FixFor(issues[i])
    /\ needs_tabular_scaffold <=> Occurrences(issues, ScaffoldIssue) > 0
    /\ pc = "done" =>
           /\ report[1].issues = issues
           /\ report[1].suggestions = suggestions
           /\ report[1].needs_tabular_scaffold = needs_tabular_scaffold
           /\ PartialRules(latex_code) => Occurrences(issues, RulesIssue) = 1

\* A report for a text with \toprule alone and a mismatched row.
C9_Witness ==
    /\ pc = "done"
    /\ PartialRules(latex_code)
    /\ Occurrences(report[1].issues, RulesIssue) = 1
    /\ \E i \in 1..Len(report[1].issues) :
           /\ report[1].issues[i] = MismatchIssue(<<1>>)
           /\ i < Len(report[1].issues)

-----------------------------------------------------------------------------
(* Properties of _find_column_mismatches. *)

\* The separators of a row that no backslash precedes.
UnescapedSeparators(row) ==
    Cardinality({i \in 1..Len(row) : row[i] = "&" /\ (i = 1 \/ row[i - 1] # "\\")})

\* A segment that is no data row: it starts with a backslash, or contains a
\* rule keyword, or contains the text of a begin/end tabular marker (the source
\* tests for the marker without its closing brace).
Structural(seg) ==
    \/ seg[1] = "\\"
    \/ \E i \in 1..Len(seg) : seg[i] \in {"toprule", "midrule", "bottomrule"}
    \/ \E i \in 1..(Len(seg) - 1) :
           seg[i] = "\\" /\ seg[i + 1] \in {"begin{tabular", "end{tabular"}

\* The non-empty trimmed pieces of the body between row terminators.
Segments(body) == StrippedNonEmpty(Split(body, RowTerminator))

DataRows(body) == SelectSeq(Segments(body), LAMBDA seg : ~Structural(seg))

\* C5: _find_column_mismatches returns, in increasing order, exactly the 1-based
\* data-row indices of the rows whose cell count differs from expected_cols;
\* structural segments are skipped and do not advance the index; the cell count
\* is the number of separators not preceded by a backslash, plus one.
C5_MismatchedDataRows ==
    pc = "mismatch_ret" =>
        LET rows == DataRows(tabular_block[1].body)
            bad == {k \in 1..Len(rows) : UnescapedSeparators(rows[k]) + 1 # expected_cols[1]}
            out == column_mismatch_rows
        IN  /\ {out[i] : i \in 1..Len(out)} = bad
            /\ \A i, j \in 1..Len(out) : i < j => out[i] < out[j]

\* A body with a skipped rule row, then a data row with an escaped separator
\* that has two cells where one is expected: the only index reported is 1.
C5_Witness ==
    /\ pc = "mismatch_ret"
    /\ Len(Segments(tabular_block[1].body)) = 2
    /\ Structural(Segments(tabular_block[1].body)[1])
    /\ Contains(Segments(tabular_block[1].body)[2], <<"\\", "&">>)
    /\ UnescapedSeparators(Segments(tabular_block[1].body)[2]) = 1
    /\ expected_cols = Some(1)
    /\ column_mismatch_rows = <<1>>

-----------------------------------------------------------------------------
(* Properties of _count_columns_from_spec. *)

ColumnTypeLetters == {"l", "c", "r", "p", "m", "b", "x", "s",
                      "L", "C", "R", "P", "M", "B", "X", "S"}

WidthColumnLetters == {"p", "m", "b", "P", "M", "B"}

\* The columns a spec declares: @{...} directives and "|" removed, one column
\* for each column-type letter, the braced width argument of a p/m/b column
\* passed over.
RECURSIVE VisibleColumnsOf(_)
VisibleColumnsOf(s) ==
    IF s = << >> THEN 0
    ELSE IF Head(s) \in WidthColumnLetters /\ Len(s) >= 2 /\ s[2] = "{"
              /\ FirstIndexOf(s, "}", 3) > 0
         THEN 1 + VisibleColumnsOf(SubSeq(s, FirstIndexOf(s, "}", 3) + 1, Len(s)))
    ELSE (IF Head(s) \in ColumnTypeLetters THEN 1 ELSE 0) + VisibleColumnsOf(Tail(s))

VisibleColumns(spec) == VisibleColumnsOf(Remove(RemoveAtDirectives(spec), <<"|">>))

\* A spec in which every brace pair is the argument of an "@" or of a p/m/b
\* column and every width stands inside such an argument.
RECURSIVE WellFormedSpec(_)
WellFormedSpec(s) ==
    IF s = << >> THEN TRUE
    ELSE IF Head(s) \in {"l", "C", "|"} THEN WellFormedSpec(Tail(s))
    ELSE IF Head(s) = "p"
         THEN IF Len(s) >= 2 /\ s[2] = "{"
              THEN /\ Len(s) >= 4
                   /\ s[3] = "3cm"
                   /\ s[4] = "}"
                   /\ WellFormedSpec(SubSeq(s, 5, Len(s)))
              ELSE WellFormedSpec(Tail(s))
    ELSE IF Head(s) = "@"
         THEN /\ Len(s) >= 3
              /\ s[2] = "{"
              /\ s[3] = "}"
              /\ WellFormedSpec(SubSeq(s, 4, Len(s)))
    ELSE FALSE

\* C6: _count_columns_from_spec returns the number of visible columns the spec
\* declares: each column counts once through its column-type letter, the width
\* argument of a p/m/b column adds none, and the result is None when the spec
\* has no column-type letter.
C6_CountsVisibleColumns ==
    (pc = "count_ret" /\ WellFormedSpec(tabular_block[1].column_spec)) =>
        expected_cols = (IF VisibleColumns(tabular_block[1].column_spec) = 0 THEN None
                         ELSE Some(VisibleColumns(tabular_block[1].column_spec)))

-----------------------------------------------------------------------------
(* Properties of the column-count fallback. *)

\* A line whose first character after leading whitespace is "%".
CommentLine(line) ==
    \E i \in 1..Len(line) : line[i] = "%" /\ \A k \in 1..(i - 1) : line[k] \in Whitespace

\* The lines the fallback may take: with a cell separator, not a comment.
CandidateLines(text) ==
    {i \in 1..Len(SplitLines(text)) :
        /\ \E k \in 1..Len(SplitLines(text)[i]) : SplitLines(text)[i][k] = "&"
        /\ ~CommentLine(SplitLines(text)[i])}

FirstCandidate(text) ==
    SplitLines(text)[CHOOSE i \in CandidateLines(text) : \A j \in CandidateLines(text) : i <= j]

\* C7 as stated: when the spec resolved no count, expected_columns is the number
\* of unescaped separators plus one of the first line that has a separator and
\* is no comment (1 when all its separators are escaped), and None when there is
\* no such line.
C7_FallbackCountsFirstLine ==
    (pc = "done" /\ ~SpecGaveCount) =>
        report[1].expected_columns =
            (IF CandidateLines(latex_code) = {} THEN None
             ELSE Some(UnescapedSeparators(FirstCandidate(latex_code)) + 1))

\* C7 amended: when the spec resolved no count, the fallback takes the first
\* line that has a separator and is no comment; expected_columns is the number
\* of its unescaped separators plus one if it has at least one, and None if all
\* its separators are escaped or there is no such line.
C7_FallbackNeedsUnescapedSeparator ==
    (pc = "done" /\ ~SpecGaveCount) =>
        report[1].expected_columns =
            (IF CandidateLines(latex_code) = {} THEN None
             ELSE IF UnescapedSeparators(FirstCandidate(latex_code)) = 0 THEN None
             ELSE Some(UnescapedSeparators(FirstCandidate(latex_code)) + 1))

\* A comment line with a separator is passed over and the next line gives two
\* columns.
C7_Witness ==
    /\ pc = "done"
    /\ ~SpecGaveCount
    /\ Len(SplitLines(latex_code)) >= 2
    /\ CommentLine(SplitLines(latex_code)[1])
    /\ Contains(SplitLines(latex_code)[1], <<"&">>)
    /\ CandidateLines(latex_code) # {}
    /\ report[1].expected_columns = Some(2)

-----------------------------------------------------------------------------
(* Properties of run_agent. *)

\* The tools called so far, in order.
Kinds(cs) == [i \in 1..Len(cs) |-> cs[i][1]]

IsPrefix(s, t) == Len(s) <= Len(t) /\ SubSeq(t, 1, Len(s)) = s

\* Empty or whitespace only.
Blank(text) == \A i \in 1..Len(text) : text[i] \in Whitespace

PlainPipeline == <<"router", "formatter", "auditor", "refiner">>
LatexPipeline == <<"router", "auditor", "refiner">>

\* C10: for an empty or whitespace-only input run_agent returns the error
\* string and calls no tool.  Otherwise it calls the router, then the formatter
\* if and only if the router said 'plain' (the input is passed through
\* unchanged for 'latex'), then the auditor once on the resulting LaTeX, then
\* the refiner once with that LaTeX and the auditor's report, and not before
\* the auditor has returned; the router yields only 'plain' or 'latex'.
C10_PipelineOrder ==
    /\ Blank(input_data) =>
           /\ calls = << >>
           /\ apc = "done" => final_latex = Some(NoInputError)
    /\ calls # << >> => input_type \in {"plain", "latex"}
    /\ IsPrefix(Kinds(calls), IF input_type = "plain" THEN PlainPipeline ELSE LatexPipeline)
    /\ (apc = "done" /\ ~Blank(input_data)) =>
           /\ Kinds(calls) = (IF input_type = "plain" THEN PlainPipeline ELSE LatexPipeline)
           /\ final_latex # None
    /\ \A i \in 1..Len(calls) :
           /\ calls[i][1] \in {"router", "formatter"} => calls[i][2] = input_data
           /\ calls[i][1] = "auditor" =>
                  /\ current_latex # None
                  /\ calls[i][2] = current_latex[1]
                  /\ latex_code = current_latex[1]
                  /\ input_type = "latex" => current_latex[1] = input_data
           /\ calls[i][1] = "refiner" =>
                  /\ pc = "done"
                  /\ report # None
                  /\ calls[i][2] = current_latex[1]
                  /\ calls[i][3] = report[1]
                  /\ report[1] = Report

\* A finished run on plain text: all four tools were called and the auditor's
\* report, with issues, went to the refiner.
C10_Witness ==
    /\ apc = "done"
    /\ Kinds(calls) = PlainPipeline
    /\ calls[4][3].issues # << >>
    /\ calls[3][2] # input_data

=============================================================================
